---- MODULE Spec2Model ----
(***************************************************************************)
(* Model of src/seed_phrase.rs: SeedPhrase (a validated mnemonic plus a    *)
(* curve selector), the derivation operations built on it, and KeyPair.    *)
(*                                                                         *)
(* Text is a sequence of one-character strings.  The three collaborators   *)
(* the file calls (the bip39 mnemonic codec, the slip10 path parser and    *)
(* deriver, the strkey wrappers) are modelled at the call sites:           *)
(*   - the path parser is modelled character by character, with u32        *)
(*     arithmetic kept to its width;                                       *)
(*   - the hash-based parts (seed derivation, child-key derivation, the    *)
(*     public point) are symbolic: a byte of a hash output is the pair of  *)
(*     its position and the hashed input, so distinct inputs give distinct *)
(*     outputs;                                                            *)
(*   - the mnemonic codec is a scaled-down BIP-39: a wordlist of four      *)
(*     words (two bits each), entropy of EntropyBits bits, one checksum    *)
(*     bit for every EntropyBits bits of entropy.                          *)
(***************************************************************************)
EXTENDS Integers, Sequences, FiniteSets, TLC

VARIABLES sp, last, hist

vars == <<sp, last, hist>>

(***************************************************************************)
(* Bounds of the model.                                                    *)
(***************************************************************************)
MaxSuffixLen == 3
MaxTextLen == 5
MaxEntropyLen == 4
MaxHist == 3

(***************************************************************************)
(* Generic helpers.                                                        *)
(***************************************************************************)
SeqsUpTo(S, n) == UNION {[1..k -> S] : k \in 0..n}

Ok(v) == [ok |-> TRUE, val |-> v]
Err(e) == [ok |-> FALSE, err |-> e]

\* Option<&str>: the empty sequence is None, a one-element sequence is Some.
None == <<>>
Some(s) == <<s>>

\* unwrap_or with a non-empty placeholder for the absent passphrase.
unwrap_or_placeholder(o) == IF o = None THEN <<" ">> ELSE o[1]

\* Option::unwrap_or_default on Option<&str>
unwrap_or_default(o) == IF o = None THEN <<>> ELSE o[1]

(***************************************************************************)
(* Characters and decimal numbers.                                         *)
(***************************************************************************)
Digits == <<"0", "1", "2", "3", "4", "5", "6", "7", "8", "9">>

IsDigit(c) == \E d \in 1..10 : Digits[d] = c

DigitVal(c) == (CHOOSE d \in 1..10 : Digits[d] = c) - 1

\* Display of an unsigned machine integer below 10^9: decimal, no padding.
RECURSIVE Dec(_)
Dec(n) == IF n < 10 THEN <<Digits[n + 1]>>
          ELSE Dec(n \div 10) \o <<Digits[(n % 10) + 1]>>

\* The low nine decimal digits of a number, zero padded.
RECURSIVE PadDec(_, _)
PadDec(n, width) == IF width = 0 THEN <<>>
                    ELSE PadDec(n \div 10, width - 1) \o <<Digits[(n % 10) + 1]>>

\* A usize is carried as <<hi, lo>>, standing for hi * 10^9 + lo with
\* lo < 10^9, so that indices beyond 2^31 - 1 stay representable.
FormatUsize(num) == IF num[1] = 0 THEN Dec(num[2])
                    ELSE Dec(num[1]) \o PadDec(num[2], 9)

(***************************************************************************)
(* u32 parsing, as the path parser uses it (str::parse::<u32>).            *)
(* Values are kept below 2^31: a parsed value is a number in               *)
(* 0..MaxIndex, or Big (in 2^31 .. 2^32 - 1, which parses as a u32 but is  *)
(* not below the hardened offset), or Bad (not a u32 at all).              *)
(***************************************************************************)
\* HARDEND - 1 = 2^31 - 1, the largest index below the hardened offset.
MaxIndex == 2147483647

Big == -1
Bad == -2

\* One step of the checked accumulation acc * 10 + d of u32::from_str.
AccumDigit(acc, d) ==
    IF acc < 0 THEN Bad
    ELSE IF acc < MaxIndex \div 10 \/ (acc = MaxIndex \div 10 /\ d <= MaxIndex % 10)
         THEN acc * 10 + d
    ELSE IF acc < MaxIndex \div 5 \/ (acc = MaxIndex \div 5 /\ d <= 2 * (MaxIndex % 5) + 1)
         THEN Big
    ELSE Bad

RECURSIVE AccumDigits(_, _)
AccumDigits(acc, s) ==
    IF s = <<>> THEN acc
    ELSE IF ~IsDigit(Head(s)) THEN Bad
    ELSE AccumDigits(AccumDigit(acc, DigitVal(Head(s))), Tail(s))

\* str::parse::<u32>: an optional leading "+", then at least one digit.
ParseU32(s) ==
    LET body == IF s # <<>> /\ Head(s) = "+" THEN Tail(s) ELSE s
    IN  IF body = <<>> THEN Bad ELSE AccumDigits(0, body)

(***************************************************************************)
(* slip10::BIP32Path::from_str, as called at the path-parsing site.        *)
(* A component is [index, hardened]: the u32 index + HARDEND of a hardened *)
(* component is carried as index with hardened = TRUE.                     *)
(***************************************************************************)
Component(i, h) == [index |-> i, hardened |-> h]

\* str::replace("/", "\n")
ReplaceSlash(s) == [i \in 1..Len(s) |-> IF s[i] = "/" THEN "\n" ELSE s[i]]

\* str::lines: split at "\n"; a line's "\r" before the "\n" is dropped; a
\* final line ending yields no extra empty line.
RECURSIVE LinesFrom(_, _)
LinesFrom(s, cur) ==
    IF s = <<>> THEN (IF cur = <<>> THEN <<>> ELSE <<cur>>)
    ELSE IF Head(s) = "\n"
         THEN LET line == IF cur # <<>> /\ cur[Len(cur)] = "\r"
                          THEN SubSeq(cur, 1, Len(cur) - 1) ELSE cur
              IN  <<line>> \o LinesFrom(Tail(s), <<>>)
    ELSE LinesFrom(Tail(s), Append(cur, Head(s)))

Lines(s) == LinesFrom(s, <<>>)
\* One segment of the path: "m" is skipped by the caller; a segment ending
\* in "H" or "'" is a hardened index, any other a plain index; the index
\* must parse as a u32 and be below the hardened offset.
ParseSegment(p) ==
    LET hard == p # <<>> /\ p[Len(p)] \in {"H", "'"}
        n    == IF hard THEN ParseU32(SubSeq(p, 1, Len(p) - 1)) ELSE ParseU32(p)
    IN  IF n < 0 THEN Err("InvalidIndex") ELSE Ok(Component(n, hard))

RECURSIVE ParseSegments(_, _)
ParseSegments(ls, paths) ==
    IF ls = <<>> THEN Ok(paths)
    ELSE IF Head(ls) = <<"m">> THEN ParseSegments(Tail(ls), paths)
    ELSE LET c == ParseSegment(Head(ls))
         IN  IF c.ok THEN ParseSegments(Tail(ls), Append(paths, c.val))
             ELSE Err("InvalidIndex")

BIP32Path_from_str(path) == ParseSegments(Lines(ReplaceSlash(path)), <<>>)

(***************************************************************************)
(* bip39::Seed::new and slip10::derive_key_from_path, symbolically.        *)
(***************************************************************************)
\* The salt prefix of the mnemonic seed derivation.
SaltPrefix == <<"m", "n", "e", "m", "o", "n", "i", "c">>

\* bip39::Seed::new(mnemonic, password): the key-stretching hash of the
\* phrase, salted with "mnemonic" followed by the password.
Seed_new(mnemonic, password) ==
    [hash |-> "PBKDF2", password |-> mnemonic.phrase, salt |-> SaltPrefix \o password]

\* Width of a private scalar and of a strkey public key, in bytes.
KeyLen == 32

\* The bytes of a hash output: byte i of the hash of `input`.
HashBytes(label, input, n) == [i \in 1..n |-> <<label, i, input>>]

\* slip10::Key of the node reached from `seed` along `path`.
Key(seed, curve, path) ==
    [node |-> <<curve, seed, path>>,
     key  |-> HashBytes("I_L", <<curve, seed, path>>, KeyLen)]

\* slip10::derive_key_from_path: the master key of the seed, then one child
\* per component; a component that is not hardened is refused on Ed25519.
RECURSIVE DeriveFrom(_, _, _, _)
DeriveFrom(seed, curve, done, rest) ==
    IF rest = <<>> THEN Ok(Key(seed, curve, done))
    ELSE IF curve = "Ed25519" /\ ~Head(rest).hardened THEN Err("InvalidIndex")
    ELSE DeriveFrom(seed, curve, Append(done, Head(rest)), Tail(rest))

derive_key_from_path(seed, curve, path) == DeriveFrom(seed, curve, <<>>, path)

\* slip10::Key::public_key: a zero prefix byte, then the public point.
public_key(k) == <<0>> \o HashBytes("A", k.node, KeyLen)
(***************************************************************************)
(* The mnemonic codec (bip39::Mnemonic), scaled down.                      *)
(***************************************************************************)
\* The wordlist: word number i (from 0) is Wordlist[i + 1].
Wordlist == << <<"a">>, <<"b">>, <<"a", "b">>, <<"b", "a">> >>

\* Bits of entropy in a mnemonic (one supported size).
EntropyBits == 3

\* The checksum bits appended to the entropy.
Checksum(entropy) == <<(entropy[1] + entropy[2] + entropy[3]) % 2>>

RECURSIVE Join(_, _)
Join(ws, sep) == IF ws = <<>> THEN <<>>
                 ELSE IF Len(ws) = 1 THEN ws[1]
                 ELSE ws[1] \o sep \o Join(Tail(ws), sep)

\* Two bits to a word.
RECURSIVE BitsToWords(_)
BitsToWords(bits) == IF Len(bits) < 2 THEN <<>>
                     ELSE <<Wordlist[2 * bits[1] + bits[2] + 1]>> \o BitsToWords(Tail(Tail(bits)))

RECURSIVE WordsToBits(_)
WordsToBits(ws) ==
    IF ws = <<>> THEN <<>>
    ELSE LET i == (CHOOSE k \in 1..Len(Wordlist) : Wordlist[k] = Head(ws)) - 1
         IN  <<i \div 2, i % 2>> \o WordsToBits(Tail(ws))

\* str::split(" "): every single space separates, so that two spaces in a
\* row, or a space at either end, give an empty word.
RECURSIVE SplitSpace(_, _)
SplitSpace(s, cur) ==
    IF s = <<>> THEN <<cur>>
    ELSE IF Head(s) = " " THEN <<cur>> \o SplitSpace(Tail(s), <<>>)
    ELSE SplitSpace(Tail(s), Append(cur, Head(s)))

\* bip39::Mnemonic::from_entropy(bytes, Language::English)
Mnemonic_from_entropy(entropy) ==
    IF Len(entropy) # EntropyBits THEN Err("InvalidEntropyLength")
    ELSE Ok([phrase  |-> Join(BitsToWords(entropy \o Checksum(entropy)), <<" ">>),
             entropy |-> entropy])

\* bip39::Mnemonic::from_phrase(phrase, Language::English): every word in
\* the wordlist, a supported word count, a matching checksum; the phrase
\* is stored as it was given.
Mnemonic_from_phrase(phrase) ==
    LET ws == SplitSpace(phrase, <<>>)
    IN  IF \E i \in 1..Len(ws) : \A k \in 1..Len(Wordlist) : Wordlist[k] # ws[i]
        THEN Err("InvalidWord")
        ELSE IF 2 * Len(ws) # EntropyBits + Len(Checksum(<<0, 0, 0>>))
        THEN Err("InvalidWordCount")
        ELSE LET bits    == WordsToBits(ws)
                 entropy == SubSeq(bits, 1, EntropyBits)
             IN  IF SubSeq(bits, EntropyBits + 1, Len(bits)) # Checksum(entropy)
                 THEN Err("InvalidChecksum")
                 ELSE Ok([phrase |-> phrase, entropy |-> entropy])

(***************************************************************************)
(* KeyPair                                                                 *)
(***************************************************************************)
\* impl From<slip10::Key> for KeyPair: the tuple struct around the key.
KeyPair_from(value) == <<value>>

\* public without the prefix byte stripped.
public_unstripped(self) ==
    LET pk    == public_key(self[1])
        slice == SubSeq(pk, 1, Len(pk))
    IN  IF Len(slice) = KeyLen THEN [panic |-> FALSE, key |-> <<"PublicKey", slice>>]
        ELSE [panic |-> TRUE]

\* KeyPair::public: the public key without its first byte, converted to a
\* KeyLen-byte array; the unwrap panics when the length is not KeyLen.
public(self) ==
    LET pk    == public_key(self[1])
        slice == SubSeq(pk, 2, Len(pk))
    IN  IF Len(slice) = KeyLen THEN [panic |-> FALSE, key |-> <<"PublicKey", slice>>]
        ELSE [panic |-> TRUE]

\* KeyPair::private
private(self) == <<"PrivateKey", self[1].key>>

(***************************************************************************)
(* SeedPhrase                                                              *)
(***************************************************************************)
\* The conversion of a codec error done by the ? operator.
ErrorFrom(e) == [kind |-> "Mnemonic", cause |-> e]

\* Error::InvalidIndex { path }
InvalidIndex(path) == [kind |-> "InvalidIndex", path |-> path]

\* new_ed25519 selecting another curve.
new_other_curve(seed_phrase) == [curve |-> "Secp256k1", seed_phrase |-> seed_phrase]

new_ed25519(seed_phrase) == [curve |-> "Ed25519", seed_phrase |-> seed_phrase]

from_entropy(bytes) ==
    LET res == Mnemonic_from_entropy(bytes)
    IN  IF res.ok THEN Ok(new_ed25519(res.val)) ELSE Err(ErrorFrom(res.err))

IsWhitespace(c) == c \in {" ", "\t", "\n", "\r"}

\* str::split_whitespace: the runs of characters that are not whitespace.
RECURSIVE SplitWhitespace(_, _)
SplitWhitespace(s, cur) ==
    IF s = <<>> THEN (IF cur = <<>> THEN <<>> ELSE <<cur>>)
    ELSE IF IsWhitespace(Head(s))
         THEN (IF cur = <<>> THEN <<>> ELSE <<cur>>) \o SplitWhitespace(Tail(s), <<>>)
    ELSE SplitWhitespace(Tail(s), Append(cur, Head(s)))

\* seed_phrase.split_whitespace().collect::<Vec<_>>().join(" ")
Normalize(seed_phrase) == Join(SplitWhitespace(seed_phrase, <<>>), <<" ">>)

\* from_seed_phrase handing the text to the codec as it was given.
from_seed_phrase_raw(seed_phrase) ==
    LET res == Mnemonic_from_phrase(seed_phrase)
    IN  IF res.ok THEN Ok(new_ed25519(res.val)) ELSE Err(ErrorFrom(res.err))

from_seed_phrase(seed_phrase) ==
    LET res == Mnemonic_from_phrase(Normalize(seed_phrase))
    IN  IF res.ok THEN Ok(new_ed25519(res.val)) ELSE Err(ErrorFrom(res.err))

\* bip39::Mnemonic::new(mtype, Language::English): a mnemonic over entropy
\* of the size of mtype, drawn by the codec.
Mnemonic_new(mtype, entropy) == Mnemonic_from_entropy(entropy).val

\* SeedPhrase::random
random(mtype, entropy) == Ok(new_ed25519(Mnemonic_new(mtype, entropy)))

\* impl FromStr for SeedPhrase
from_str(s) == from_seed_phrase(s)

phrase(self) == self.seed_phrase.phrase

\* to_seed keeping the passphrase of the previous call that took one.
to_seed_cached(self, passphrase) ==
    LET prev == hist[Len(hist)]
    IN  IF hist # <<>> /\ "passphrase" \in DOMAIN prev
        THEN Seed_new(self.seed_phrase, unwrap_or_default(prev.passphrase))
        ELSE Seed_new(self.seed_phrase, unwrap_or_default(passphrase))

to_seed(self, passphrase) == Seed_new(self.seed_phrase, unwrap_or_default(passphrase))

\* The account prefix with the hardening mark of its last component lost.
PathPrefix_unclosed == <<"m", "/", "4", "4", "'", "/", "1", "4", "8">>

\* The fixed account prefix of every derivation path.
PathPrefix == <<"m", "/", "4", "4", "'", "/", "1", "4", "8", "'">>

Call(fn, arg) == [fn |-> fn, arg |-> arg]

\* from_path_string with the deriver's rejection reported under the bare
\* suffix instead of the assembled path.
from_path_string_bare(self, path, passphrase) ==
    LET full   == PathPrefix \o path
        seed   == to_seed(self, passphrase)
        parsed == BIP32Path_from_str(full)
        early  == <<Call("to_seed", passphrase), Call("BIP32Path::from_str", full)>>
    IN  IF ~parsed.ok
        THEN [result |-> Err(InvalidIndex(full)), calls |-> early]
        ELSE LET derived == derive_key_from_path(seed, self.curve, parsed.val)
                 calls   == Append(early, Call("derive_key_from_path", parsed.val))
             IN  IF ~derived.ok
                 THEN [result |-> Err(InvalidIndex(path)), calls |-> calls]
                 ELSE [result |-> Ok(KeyPair_from(derived.val)), calls |-> calls]

\* from_path_string with a parse failure replaced by the default (empty)
\* path instead of returning.
from_path_string_lenient(self, path, passphrase) ==
    LET full   == PathPrefix \o path
        seed   == to_seed(self, passphrase)
        parsed == BIP32Path_from_str(full)
        early  == <<Call("to_seed", passphrase), Call("BIP32Path::from_str", full)>>
        used   == IF parsed.ok THEN parsed.val ELSE <<>>
        derived == derive_key_from_path(seed, self.curve, used)
        calls   == Append(early, Call("derive_key_from_path", used))
    IN  IF ~derived.ok
        THEN [result |-> Err(InvalidIndex(full)), calls |-> calls]
        ELSE [result |-> Ok(KeyPair_from(derived.val)), calls |-> calls]

\* SeedPhrase::from_path_string.  The value is the result together with the
\* collaborator calls made, in the order the arguments are evaluated: the
\* seed, then the parse (whose failure returns at once), then the deriver.
from_path_string(self, path, passphrase) ==
    LET full   == PathPrefix \o path
        seed   == to_seed(self, passphrase)
        parsed == BIP32Path_from_str(full)
        early  == <<Call("to_seed", passphrase), Call("BIP32Path::from_str", full)>>
    IN  IF ~parsed.ok
        THEN [result |-> Err(InvalidIndex(full)), calls |-> early]
        ELSE LET derived == derive_key_from_path(seed, self.curve, parsed.val)
                 calls   == Append(early, Call("derive_key_from_path", parsed.val))
             IN  IF ~derived.ok
                 THEN [result |-> Err(InvalidIndex(full)), calls |-> calls]
                 ELSE [result |-> Ok(KeyPair_from(derived.val)), calls |-> calls]

\* from_path_index with the index rendered without the hardening mark.
from_path_index_plain(self, num, passphrase) ==
    from_path_string(self, <<"/">> \o FormatUsize(num), passphrase)

\* SeedPhrase::from_path_index: format!("/{num}'")
from_path_index(self, num, passphrase) ==
    from_path_string(self, <<"/">> \o FormatUsize(num) \o <<"'">>, passphrase)

\* empty_key deriving the first indexed key instead of the account root.
empty_key_indexed(self, passphrase) == from_path_string(self, <<"/", "0", "'">>, passphrase)

\* SeedPhrase::empty_key
empty_key(self, passphrase) == from_path_string(self, <<>>, passphrase)

\* impl From<SeedPhrase> for bip39::Seed
Seed_from(seed_phrase) == to_seed(seed_phrase, None)
(***************************************************************************)
(* Inputs.                                                                 *)
(***************************************************************************)
Bits == {0, 1}

Passphrases == {None, Some(<<>>), Some(<<"a">>)}

SuffixChars == {"/", "'", "0", "1", "m", "H", "x"}

\* Suffixes longer than MaxSuffixLen: several components, indices at the
\* edges of the u32 and hardened ranges, other separators and signs.
LongSuffixes == {
    <<"/", "0", "'", "/", "1", "'">>,
    <<"/", "1", "'", "/", "0">>,
    <<"/", "0", "/", "1", "'">>,
    <<"/", "2", "1", "4", "7", "4", "8", "3", "6", "4", "7", "'">>,
    <<"/", "2", "1", "4", "7", "4", "8", "3", "6", "4", "8", "'">>,
    <<"/", "4", "2", "9", "4", "9", "6", "7", "2", "9", "5", "'">>,
    <<"/", "4", "2", "9", "4", "9", "6", "7", "2", "9", "6", "'">>,
    <<"/", "+", "5", "'">>,
    <<"/", "m", "/", "7", "'">>,
    <<"\n", "3", "'">>,
    <<"/", "5", "'", "/">>,
    <<"/", "0", "'", "/", "/">>,
    <<"/", "0", "1", "'">>,
    <<"/", "1", "H", "/", "0", "'">>,
    <<"/", "-", "1", "'">>,
    <<"/", "1", "'", "/", "x">>,
    <<"\r", "/", "0", "'">>, <<"\r">>, <<"/", "0", "'", "\r">> }

Suffixes == SeqsUpTo(SuffixChars, MaxSuffixLen) \cup LongSuffixes

\* usize indices, as <<hi, lo>> for hi * 10^9 + lo.
Indices == {<<0, 0>>, <<0, 1>>, <<0, 5>>, <<0, 148>>, <<0, 1000000>>,
            <<2, 147483647>>, <<2, 147483648>>, <<4, 294967295>>,
            <<4, 294967296>>, <<10, 7>>, <<2147483647, 999999999>>}

TextChars == {"a", "b", " ", "\t", "\n"}

\* Texts longer than MaxTextLen.
LongTexts == {
    <<"b", "\n", "a">>,
    <<"a", "\n", "\n", "b", "a">>,
    <<" ", "a", "b", " ", " ", "b", "a">>,
    <<"b", "\t", " ", "\t", "a", " ">>,
    <<"b", "a", " ", "a", "b", " ", "a">>,
    <<" ", "a", " ", "a", " ", "a">>,
    <<"a", "b", " ", "\t", " ", "a", "b">>,
    <<"a", "\t", "\t", "b", "\t">> }

Texts == SeqsUpTo(TextChars, MaxTextLen) \cup LongTexts

Entropies == SeqsUpTo(Bits, MaxEntropyLen)

MnemonicTypes == {"Words2"}

\* The calls replayed by the history specification.
ProbePassphrases == {None, Some(<<"a">>)}

ProbeSuffixes == {<<"/", "0", "'">>, <<"/", "0">>}

ProbeIndices == {<<0, 0>>}

ProbeEntropies == {<<0, 0, 0>>, <<1, 0, 1>>, <<1>>}

(***************************************************************************)
(* State.                                                                  *)
(*   sp    the SeedPhrase value in the caller's hands: None before a       *)
(*         constructor has succeeded, Some(value) after;                   *)
(*   last  the call whose result the caller holds: the operation, its      *)
(*         arguments and what it returned; op = "none" when the caller     *)
(*         holds no result;                                                *)
(*   hist  the derivation calls made so far with what they returned (kept  *)
(*         by the history specification only).                             *)
(***************************************************************************)
Init ==
    /\ sp = None
    /\ last = [op |-> "none"]
    /\ hist = <<>>

Self == sp[1]

\* A constructor may be called while the caller holds nothing.
CanConstruct == sp = None /\ last.op = "none"

\* A constructor returned `res` for input `arg`.
Constructed(op, arg, res) ==
    /\ sp' = IF res.ok THEN Some(res.val) ELSE None
    /\ last' = [op |-> op, arg |-> arg, result |-> res]
    /\ UNCHANGED hist

DoFromEntropy(E) ==
    /\ CanConstruct
    /\ \E bytes \in E : Constructed("from_entropy", bytes, from_entropy(bytes))

FromEntropy == DoFromEntropy(Entropies)

FromSeedPhrase ==
    /\ CanConstruct
    /\ \E text \in Texts : Constructed("from_seed_phrase", text, from_seed_phrase(text))

FromStr ==
    /\ CanConstruct
    /\ \E text \in Texts : Constructed("from_str", text, from_str(text))

Random ==
    /\ CanConstruct
    /\ \E mtype \in MnemonicTypes, entropy \in [1..EntropyBits -> Bits] :
          Constructed("random", mtype, random(mtype, entropy))

\* A method of the SeedPhrase returned: the value itself is left alone.
\* With track, the call is also appended to hist.
Called(rec, track) ==
    /\ last' = rec
    /\ hist' = IF track THEN Append(hist, rec) ELSE hist
    /\ UNCHANGED sp

CanCall(track) == sp # None /\ last.op = "none" /\ (track => Len(hist) < MaxHist)

DoPhrase(track) ==
    /\ CanCall(track)
    /\ Called([op |-> "phrase", result |-> phrase(Self)], track)

DoToSeed(P, track) ==
    /\ CanCall(track)
    /\ \E passphrase \in P :
        Called([op |-> "to_seed", passphrase |-> passphrase,
                result |-> to_seed(Self, passphrase)], track)

DoIntoSeed(track) ==
    /\ CanCall(track)
    /\ Called([op |-> "into_seed", result |-> Seed_from(Self)], track)

Derived(op, arg, passphrase, out) ==
    [op |-> op, arg |-> arg, passphrase |-> passphrase,
     result |-> out.result, calls |-> out.calls]

DoFromPathString(S, P, track) ==
    /\ CanCall(track)
    /\ \E path \in S, passphrase \in P :
        Called(Derived("from_path_string", path, passphrase,
                       from_path_string(Self, path, passphrase)), track)

DoFromPathIndex(N, P, track) ==
    /\ CanCall(track)
    /\ \E num \in N, passphrase \in P :
        Called(Derived("from_path_index", num, passphrase,
                       from_path_index(Self, num, passphrase)), track)

DoEmptyKey(P, track) ==
    /\ CanCall(track)
    /\ \E passphrase \in P :
        Called(Derived("empty_key", <<>>, passphrase, empty_key(Self, passphrase)), track)

IsDerivation(rec) == rec.op \in {"from_path_string", "from_path_index", "empty_key"}

\* The KeyPair the last derivation returned is read.
HasKeyPair == IsDerivation(last) /\ last.result.ok

Public ==
    /\ HasKeyPair
    /\ last' = [op |-> "public", pair |-> last.result.val, result |-> public(last.result.val)]
    /\ UNCHANGED <<sp, hist>>

Private ==
    /\ HasKeyPair
    /\ last' = [op |-> "private", pair |-> last.result.val, result |-> private(last.result.val)]
    /\ UNCHANGED <<sp, hist>>

\* The caller drops the result it holds.
Discard ==
    /\ last.op # "none"
    /\ last' = [op |-> "none"]
    /\ UNCHANGED <<sp, hist>>

Phrase == DoPhrase(FALSE)
ToSeed == DoToSeed(Passphrases, FALSE)
IntoSeed == DoIntoSeed(FALSE)
FromPathString == DoFromPathString(Suffixes, Passphrases, FALSE)
FromPathIndex == DoFromPathIndex(Indices, Passphrases, FALSE)
EmptyKey == DoEmptyKey(Passphrases, FALSE)

Next ==
    \/ FromEntropy
    \/ FromSeedPhrase
    \/ FromStr
    \/ Random
    \/ Phrase
    \/ ToSeed
    \/ IntoSeed
    \/ FromPathString
    \/ FromPathIndex
    \/ EmptyKey
    \/ Public
    \/ Private
    \/ Discard

Spec == Init /\ [][Next]_vars

(***************************************************************************)
(* The history specification: one SeedPhrase, and up to MaxHist calls on   *)
(* it, each kept in hist with its result.                                  *)
(***************************************************************************)
FromEntropyH == DoFromEntropy(ProbeEntropies)
ToSeedH == DoToSeed(ProbePassphrases, TRUE)
FromPathStringH == DoFromPathString(ProbeSuffixes, ProbePassphrases, TRUE)
FromPathIndexH == DoFromPathIndex(ProbeIndices, ProbePassphrases, TRUE)
EmptyKeyH == DoEmptyKey(ProbePassphrases, TRUE)

NextH ==
    \/ FromEntropyH
    \/ ToSeedH
    \/ FromPathStringH
    \/ FromPathIndexH
    \/ EmptyKeyH
    \/ Discard

SpecH == Init /\ [][NextH]_vars
(***************************************************************************)
(* Properties.                                                             *)
(***************************************************************************)
Hardened(i) == Component(i, TRUE)

\* The assembled path of the derivation held in last, as it was handed to
\* the parser.
Assembled == last.calls[2].arg

DeriverCalled == \E i \in 1..Len(last.calls) : last.calls[i].fn = "derive_key_from_path"

\* Failure case (a): the assembled string does not parse.
Unparsable(full) == ~BIP32Path_from_str(full).ok

\* Failure case (b): it parses, and the deriver rejects the parsed path.
Rejected(full, passphrase) ==
    /\ BIP32Path_from_str(full).ok
    /\ ~derive_key_from_path(Seed_new(Self.seed_phrase, unwrap_or_default(passphrase)),
                             Self.curve, BIP32Path_from_str(full).val).ok

\* C1: from_path_string(s, p) fails exactly when "m/44'/148'" + s does not
\* parse or the deriver rejects the parsed path, and in both cases the
\* error is InvalidIndex carrying the whole assembled string; otherwise it
\* succeeds.
C1_InvalidIndexCarriesAssembledPath ==
    last.op = "from_path_string" =>
        LET full == <<"m", "/", "4", "4", "'", "/", "1", "4", "8", "'">> \o last.arg
            bad  == Unparsable(full) \/ Rejected(full, last.passphrase)
        IN  /\ last.result.ok <=> ~bad
            /\ bad => last.result = Err([kind |-> "InvalidIndex", path |-> full])

\* C1 witness: the deriver rejected a path that parsed (a non-empty suffix),
\* and the error carries the assembled path.
C1_Witness ==
    /\ last.op = "from_path_string"
    /\ last.arg # <<>>
    /\ Rejected(Assembled, last.passphrase)
    /\ ~last.result.ok
    /\ last.result.err.path = Assembled

\* C1, second case reached: an assembled path that does not parse.
C1_WitnessUnparsable ==
    /\ last.op = "from_path_string"
    /\ Unparsable(Assembled)
    /\ ~last.result.ok

\* C2: in from_path_string, from_path_index and empty_key the deriver is
\* called only after the assembled path has parsed, and with the parsed
\* path; an unparsable path never reaches it; an error comes with no
\* KeyPair.
C2_DeriverOnlyAfterParse ==
    IsDerivation(last) =>
        /\ \A i \in 1..Len(last.calls) :
              last.calls[i].fn = "derive_key_from_path" =>
                  \E j \in 1..(i - 1) :
                      /\ last.calls[j].fn = "BIP32Path::from_str"
                      /\ BIP32Path_from_str(last.calls[j].arg) = Ok(last.calls[i].arg)
        /\ Unparsable(Assembled) => ~DeriverCalled /\ ~last.result.ok
        /\ ~last.result.ok => DOMAIN last.result = {"ok", "err"}

\* C2 witness: an unparsable path was refused without a deriver call.
C2_Witness ==
    /\ IsDerivation(last)
    /\ Unparsable(Assembled)
    /\ ~DeriverCalled
    /\ ~last.result.ok

\* The usize that a string of decimal digits denotes, as <<hi, lo>>.
RECURSIVE UsizeOfDigits(_, _)
UsizeOfDigits(acc, ds) ==
    IF ds = <<>> THEN acc
    ELSE UsizeOfDigits(<<acc[1] * 10 + acc[2] \div 100000000,
                         (acc[2] % 100000000) * 10 + DigitVal(Head(ds))>>, Tail(ds))

\* ds is the decimal rendering of num: digits only, no leading zero.
IsDecimalOf(ds, num) ==
    /\ ds # <<>>
    /\ \A i \in 1..Len(ds) : IsDigit(ds[i])
    /\ Len(ds) > 1 => ds[1] # "0"
    /\ UsizeOfDigits(<<0, 0>>, ds) = num

\* The suffix of the derivation held in last: the assembled path without
\* the ten characters of the account prefix.
SuffixUsed == SubSeq(Assembled, 11, Len(Assembled))

\* C3: from_path_index(n, p) has the outcome of from_path_string("/{n}'", p)
\* with n in decimal, for small and for too large n: the same key pair or
\* the same InvalidIndex error with the same path; the index is one
\* hardened component.
C3_IndexIsHardenedSuffix ==
    last.op = "from_path_index" =>
        LET s  == SuffixUsed
            ds == SubSeq(s, 2, Len(s) - 1)
        IN  /\ Len(s) >= 3 /\ s[1] = "/" /\ s[Len(s)] = "'"
            /\ IsDecimalOf(ds, last.arg)
            /\ last.result = from_path_string(Self, s, last.passphrase).result
            /\ last.result.ok <=> (last.arg[1] < 2 \/ (last.arg[1] = 2 /\ last.arg[2] <= 147483647))
            /\ last.result.ok =>
                  last.result.val[1].node[3] =
                      <<Hardened(44), Hardened(148),
                        Hardened(last.arg[1] * 1000000000 + last.arg[2])>>
            /\ ~last.result.ok => last.result.err = [kind |-> "InvalidIndex", path |-> Assembled]

\* C3 witness: an index too large to be hardened was refused with the
\* assembled path.
C3_Witness ==
    /\ last.op = "from_path_index"
    /\ last.arg = <<2, 147483648>>
    /\ ~last.result.ok
    /\ last.result.err.path = <<"m", "/", "4", "4", "'", "/", "1", "4", "8", "'", "/",
                                "2", "1", "4", "7", "4", "8", "3", "6", "4", "8", "'">>

\* C3, success reached: the largest hardened index.
C3_WitnessLargest ==
    /\ last.op = "from_path_index"
    /\ last.arg = <<2, 147483647>>
    /\ last.result.ok

\* C4: empty_key(p) has the outcome of from_path_string("", p), the key at
\* exactly m/44'/148', and is the outcome of no from_path_index(n, p).
C4_EmptyKeyIsAccountRoot ==
    last.op = "empty_key" =>
        /\ last.result = from_path_string(Self, <<>>, last.passphrase).result
        /\ last.result.ok
        /\ last.result.val[1].node[3] = <<Hardened(44), Hardened(148)>>
        /\ \A n \in Indices : from_path_index(Self, n, last.passphrase).result # last.result

\* C4 witness: empty_key returned the key pair of the two-component path.
C4_Witness ==
    /\ last.op = "empty_key"
    /\ last.result.ok
    /\ Len(last.result.val[1].node[3]) = 2
\* The positions of t where a word (a maximal run of characters that are
\* not whitespace) starts, and where the word starting at i ends.
WordStarts(t) ==
    {i \in 1..Len(t) : ~IsWhitespace(t[i]) /\ (i = 1 \/ IsWhitespace(t[i - 1]))}

WordEnd(t, i) ==
    CHOOSE j \in i..Len(t) :
        /\ \A k \in i..j : ~IsWhitespace(t[k])
        /\ j = Len(t) \/ IsWhitespace(t[j + 1])

RECURSIVE JoinedFrom(_, _)
JoinedFrom(t, starts) ==
    IF starts = {} THEN <<>>
    ELSE LET i == CHOOSE x \in starts : \A y \in starts : x <= y
             w == SubSeq(t, i, WordEnd(t, i))
         IN  IF starts = {i} THEN w ELSE w \o <<" ">> \o JoinedFrom(t, starts \ {i})

\* N(t): the words of t joined by single spaces.
N(t) == JoinedFrom(t, WordStarts(t))

\* Texts that differ from t only in whitespace: a whitespace character
\* added at either end, or one whitespace character doubled or replaced.
WhitespaceVariants(t) ==
    LET W == {" ", "\t", "\n"}
        P == {k \in 1..Len(t) : IsWhitespace(t[k])}
    IN  {<<w>> \o t : w \in W} \cup {t \o <<w>> : w \in W}
        \cup {SubSeq(t, 1, i) \o <<w>> \o SubSeq(t, i + 1, Len(t)) : w \in W, i \in P}
        \cup {SubSeq(t, 1, i - 1) \o <<w>> \o SubSeq(t, i + 1, Len(t)) : w \in W, i \in P}

\* C5: from_seed_phrase(t) succeeds exactly when the codec accepts N(t),
\* phrase() then returns N(t), and texts that differ from t only in
\* whitespace have the same outcome.
C5_NormalizedPhrase ==
    last.op = "from_seed_phrase" =>
        LET n == N(last.arg)
        IN  /\ last.result.ok <=> Mnemonic_from_phrase(n).ok
            /\ last.result.ok => sp # None /\ phrase(Self) = n
            /\ \A u \in WhitespaceVariants(last.arg) : from_seed_phrase(u) = last.result

\* C5 witness: a text with irregular whitespace was accepted, and the
\* phrase held is its normal form.
C5_Witness ==
    /\ last.op = "from_seed_phrase"
    /\ last.result.ok
    /\ last.arg # N(last.arg)
    /\ phrase(Self) = N(last.arg)

\* A phrase whose words are separated by exactly one space, with no
\* whitespace at either end.
SingleSpaced(s) ==
    /\ \A i \in 1..Len(s) : IsWhitespace(s[i]) => s[i] = " "
    /\ s # <<>> => s[1] # " " /\ s[Len(s)] # " "
    /\ \A i \in 1..(Len(s) - 1) : ~(s[i] = " " /\ s[i + 1] = " ")

ValidSeedPhrase(v) ==
    /\ Mnemonic_from_phrase(v.seed_phrase.phrase).ok
    /\ SingleSpaced(v.seed_phrase.phrase)
    /\ v.curve = "Ed25519"

\* C6: a SeedPhrase, however constructed and whatever is called on it,
\* holds a checksum-valid, single-spaced phrase and the curve Ed25519, and
\* no step changes it once it exists.
C6_ValidAndImmutable ==
    /\ [](sp # None => ValidSeedPhrase(Self))
    /\ [][sp # None => sp' = sp]_vars

\* C6 witness: a SeedPhrase that has been constructed and derived from, at
\* the point where the private key of the derived pair is read.
C6_Witness ==
    /\ sp # None
    /\ last.op = "private"
    /\ ValidSeedPhrase(Self)

\* C7: the absent passphrase is the empty passphrase in to_seed, in the
\* three derivations and in the conversion into a seed.
C7_NoneIsEmptyPassphrase ==
    /\ (last.op = "to_seed" /\ last.passphrase = None) =>
          /\ last.result = to_seed(Self, Some(<<>>))
          /\ last.result.salt = <<"m", "n", "e", "m", "o", "n", "i", "c">>
    /\ (last.op = "from_path_string" /\ last.passphrase = None) =>
          last.result = from_path_string(Self, last.arg, Some(<<>>)).result
    /\ (last.op = "from_path_index" /\ last.passphrase = None) =>
          last.result = from_path_index(Self, last.arg, Some(<<>>)).result
    /\ (last.op = "empty_key" /\ last.passphrase = None) =>
          last.result = empty_key(Self, Some(<<>>)).result
    /\ last.op = "into_seed" =>
          /\ last.result = to_seed(Self, None)
          /\ last.result = to_seed(Self, Some(<<>>))

\* C7 witness: a key derived with no passphrase.
C7_Witness ==
    /\ last.op = "from_path_string"
    /\ last.passphrase = None
    /\ last.result.ok
    /\ last.result = from_path_string(Self, last.arg, Some(<<>>)).result

\* C7, seed reached: to_seed(None).
C7_WitnessSeed == last.op = "to_seed" /\ last.passphrase = None

\* C8: for a derived KeyPair, public() is the 32 bytes after the prefix
\* byte of the 33-byte public key and does not panic, private() is the
\* 32-byte scalar unchanged; a panic needs a public key that is not 33
\* bytes long.
C8_KeyShape ==
    /\ last.op = "public" =>
          LET pk == public_key(last.pair[1])
          IN  /\ Len(pk) = 33
              /\ ~last.result.panic
              /\ Len(last.result.key[2]) = 32
              /\ \A i \in 1..32 : last.result.key[2][i] = pk[i + 1]
              /\ last.result.key[2] = HashBytes("A", last.pair[1].node, 32)
    /\ (last.op = "public" /\ last.result.panic) => Len(public_key(last.pair[1])) # 33
    /\ last.op = "private" =>
          /\ Len(last.result[2]) = 32
          /\ last.result[2] = last.pair[1].key

\* C8 witness: public() returned the key of a derived pair.
C8_Witness ==
    /\ last.op = "public"
    /\ ~last.result.panic
    /\ Len(last.result.key[2]) = 32

\* What a call in hist depends on besides the SeedPhrase: the operation's
\* passphrase and, for a derivation, the suffix it assembled.
CallKey(rec) ==
    IF IsDerivation(rec)
    THEN <<"derive", rec.passphrase, SubSeq(rec.calls[2].arg, 11, Len(rec.calls[2].arg))>>
    ELSE IF rec.op = "to_seed" THEN <<"to_seed", rec.passphrase>>
    ELSE <<rec.op>>

\* C9: in any sequence of calls on one SeedPhrase, two calls with the same
\* passphrase and suffix return the same seed, the same key bytes or the
\* same error, whatever was called in between.
C9_HistoryIndependent ==
    \A i, j \in 1..Len(hist) :
        CallKey(hist[i]) = CallKey(hist[j]) => hist[i].result = hist[j].result

\* C9 witness: a derivation repeated after a call with another passphrase,
\* with the same key pair both times.
C9_Witness ==
    /\ Len(hist) = 3
    /\ IsDerivation(hist[1])
    /\ hist[1].result.ok
    /\ hist[2].passphrase # hist[1].passphrase
    /\ CallKey(hist[3]) = CallKey(hist[1])
    /\ hist[3].result = hist[1].result

\* The suffix s begins inside the last component of the account prefix:
\* it is not empty and does not begin with a separator (a "/" or a line
\* break, possibly after a carriage return).
Merges(s) ==
    /\ s # <<>>
    /\ s[1] \notin {"/", "\n"}
    /\ ~(Len(s) >= 2 /\ s[1] = "\r" /\ s[2] \in {"/", "\n"})

\* The suffix after its leading separator.
AfterSeparator(s) ==
    IF s = <<>> THEN <<>>
    ELSE IF s[1] = "\r" THEN SubSeq(s, 3, Len(s))
    ELSE Tail(s)

\* C10: when from_path_string(s, p) succeeds the path handed to the deriver
\* is 44', 148' and then the components of s alone; a suffix that begins
\* inside the 148' component is refused with InvalidIndex.
C10_PrefixFixed ==
    last.op = "from_path_string" =>
        /\ last.result.ok =>
              LET handed == last.calls[3].arg
              IN  /\ Len(handed) >= 2
                  /\ handed[1] = Hardened(44)
                  /\ handed[2] = Hardened(148)
                  /\ last.result.val[1].node[3] = handed
                  /\ ~Merges(last.arg)
                  /\ Ok(SubSeq(handed, 3, Len(handed)))
                         = BIP32Path_from_str(AfterSeparator(last.arg))
        /\ Merges(last.arg) =>
              /\ ~last.result.ok
              /\ last.result.err.kind = "InvalidIndex"
              /\ ~DeriverCalled

\* C10 witness: a suffix of two components, one of them the skipped "m",
\* gave a path of 44', 148' and its own component.
C10_Witness ==
    /\ last.op = "from_path_string"
    /\ last.arg = <<"/", "m", "/", "7", "'">>
    /\ last.result.ok
    /\ last.calls[3].arg = <<Hardened(44), Hardened(148), Hardened(7)>>

\* C10, refusal reached: a suffix that would extend 148' to 1480'.
C10_WitnessMerge ==
    /\ last.op = "from_path_string"
    /\ last.arg = <<"0", "'">>
    /\ ~last.result.ok
====
